---- MODULE Spec2Model ----
(***************************************************************************)
(* The "sources" CRUD handler of word-list/api-sources.                    *)
(*                                                                         *)
(* Two handler variants exist: main.go (API Gateway payload v1, no         *)
(* authorization check) and unnamed/part_000 (payload v2, JWT scope check  *)
(* before dispatch).  Apart from `handler`, `unauthorized` and             *)
(* `notAllowed`, the two files are textually identical, so the per-method  *)
(* handlers are modelled once.                                             *)
(*                                                                         *)
(* Strings are TLA+ strings, "" is Go's empty string.  A table is the set  *)
(* of its items; an item is a map from attribute name to attribute value.  *)
(* The environment of one invocation (does LoadDefaultConfig fail, does    *)
(* the DynamoDB call fail, which UUID does uuid.New() draw) is an input    *)
(* of the invocation.                                                      *)
(***************************************************************************)
EXTENDS Naturals, Sequences, FiniteSets, TLC

VARIABLES
    variant,     \* the handler variant deployed in this behaviour (1: main.go, 2: part_000)
    out,         \* what the last invocation left: its response, the table, the
                 \* persistence calls it issued, whether it drew a UUID
    before,      \* the table as it was when the last invocation started
    req,         \* the last request, normalised {method, id, body, scope}, and its environment
    issued,      \* how many UUIDs uuid.New() has handed out
    prevDelete   \* the delete by id that the invocation before the last one completed

vars == <<variant, out, before, req, issued, prevDelete>>

-----------------------------------------------------------------------------
(* Bounds and input universes *)

\* how many UUIDs uuid.New() can hand out in one behaviour
MaxUuid == 1

\* ids a caller makes up
CallerIds == {"c1"}

Variants == {1, 2}

Uuid(i) == "u" \o ToString(i)

\* the ids a caller can name: made up, or learned from an earlier response or listing
KnownIds(n) == CallerIds \cup {Uuid(i) : i \in 1..n}

WriteScope == "https://wordlist.gaul.tech/write"

\* Claims["scope"] of a map without the key is ""
Scopes == {"", WriteScope, "https://wordlist.gaul.tech/read"}

\* "none": every call succeeds; "config": config.LoadDefaultConfig returns an error;
\* "service": the DynamoDB call returns an error
Faults == {"none", "config", "service"}

OtherMethods == {"PATCH"}

-----------------------------------------------------------------------------
(* Request bodies and encoding/json *)

Absent == [t |-> "absent", v |-> ""]
Num == [t |-> "number", v |-> ""]
Str(s) == [t |-> "string", v |-> s]

\* A body is text that is not JSON at all, or a JSON object whose members id, name
\* and url are each absent, a number, or a string.
Body(id, name, url) == [syntax |-> "ok", id |-> id, name |-> name, url |-> url]

MalformedBody == [syntax |-> "malformed", id |-> Absent, name |-> Absent, url |-> Absent]

\* the bodies sent: not JSON, {}, a record without id, a record whose id is a number,
\* and for every id the caller can name a full record, one without url, one with the id alone
Bodies(n) ==
    {MalformedBody,
     Body(Absent, Absent, Absent),
     Body(Absent, Str("n1"), Str("w1")),
     Body(Num, Str("n1"), Str("w1"))} \cup
    UNION {{Body(Str(k), Str("n1"), Str("w1")),
            Body(Str(k), Str("n1"), Absent),
            Body(Str(k), Absent, Absent)} : k \in KnownIds(n)}

\* type Source struct
Source(id, name, url) == [ID |-> id, Name |-> name, Url |-> url]

ZeroSource == Source("", "", "")

\* how json.Unmarshal fills one string field: a JSON string is stored, an absent
\* member leaves the zero value, a number is an UnmarshalTypeError that skips the field
UnmarshalField(member) == IF member.t = "string" THEN member.v ELSE ""

\* json.Unmarshal([]byte(req.Body), &source), error ignored: a syntax error is found
\* before anything is stored, so it leaves the zero Source
Unmarshal(body) ==
    IF body.syntax = "malformed"
    THEN ZeroSource
    ELSE Source(UnmarshalField(body.id), UnmarshalField(body.name), UnmarshalField(body.url))

-----------------------------------------------------------------------------
(* Response bodies *)

NoVal == [k |-> "none"]

\* a Go string sent as the body as it is
Verbatim(s) == [fmt |-> "text", text |-> s, val |-> NoVal]

\* string(json.Marshal(source)): a JSON object
MarshalSource(source) == [fmt |-> "json", text |-> "", val |-> [k |-> "object", source |-> source]]

\* string(json.Marshal(sources)): a nil slice encodes as null, any other slice as an array
\* (the order of the elements is the store's and is not modelled)
MarshalSources(slice) ==
    [fmt |-> "json", text |-> "",
     val |-> IF slice.isNil THEN [k |-> "null"] ELSE [k |-> "array", elems |-> slice.elems]]

\* make([]Source, len(result.Items)) filled by the loop: never nil
MakeSources(elems) == [isNil |-> FALSE, elems |-> elems]

\* fmt.Sprintf(`{"error": "%s"}`, message)
ErrorText(message) == "{\"error\": \"" \o message \o "\"}"

NoBody == Verbatim("")

-----------------------------------------------------------------------------
(* Outcomes of one invocation *)

\* a response returned with a nil error
Response(status, body) ==
    [outcome |-> "response", StatusCode |-> status, Body |-> body, err |-> "nil"]

\* log.Fatalf: the process exits, nothing is returned
Exited == [outcome |-> "exit", StatusCode |-> 0, Body |-> NoBody, err |-> "none"]

\* nothing has been served yet
NotServed == [outcome |-> "none", StatusCode |-> 0, Body |-> NoBody, err |-> "none"]

\* a failed type assertion: the goroutine panics, nothing is returned
Panicked == [outcome |-> "panic", StatusCode |-> 0, Body |-> NoBody, err |-> "none"]

\* what a handler hands back: the response, the table afterwards, the persistence
\* calls it issued, and whether it drew a UUID
Result(r, tbl, cs, drew) == [resp |-> r, items |-> tbl, calls |-> cs, drewUuid |-> drew]

serverError(message) == Response(500, Verbatim(ErrorText(message)))

ok(content) == Response(200, content)

created(content) == Response(201, content)

unauthorized == Response(401, Verbatim(ErrorText("Unauthorised")))

notAllowed == Response(405, Verbatim(ErrorText("Unsupported HTTP method")))

notFound == Response(404, Verbatim(ErrorText("not found")))

-----------------------------------------------------------------------------
(* The DynamoDB table *)

\* &types.AttributeValueMemberS{Value: s}
S(s) == [T |-> "S", Value |-> s]

Item(id, name, url) == [id |-> S(id), name |-> S(name), url |-> S(url)]

\* getDynamoDbService: log.Fatalf ends the process when the configuration cannot be
\* loaded, so the `return nil, err` after it is never reached
getDynamoDbService(fault) == IF fault = "config" THEN "fatal" ELSE "svc"

\* svc.GetItem: the item under the key, or no item
GetItem(tbl, id, fault) ==
    IF fault = "service"
    THEN [err |-> TRUE, found |-> FALSE, Item |-> <<>>]
    ELSE IF \E i \in tbl : i.id.Value = id
         THEN [err |-> FALSE, found |-> TRUE, Item |-> CHOOSE i \in tbl : i.id.Value = id]
         ELSE [err |-> FALSE, found |-> FALSE, Item |-> <<>>]

\* svc.Scan: every item
Scan(tbl, fault) ==
    IF fault = "service" THEN [err |-> TRUE, Items |-> {}] ELSE [err |-> FALSE, Items |-> tbl]

\* a mutant of PutItem: the table accepts an empty string as the key
PutItem_emptyKey(tbl, item, fault) ==
    IF fault = "service"
    THEN [err |-> TRUE, items |-> tbl]
    ELSE [err |-> FALSE, items |-> {i \in tbl : i.id.Value # item.id.Value} \cup {item}]

\* svc.PutItem: an unconditional upsert under the key attribute id.  DynamoDB
\* answers a ValidationException to an empty string as a key attribute.
PutItem(tbl, item, fault) ==
    IF fault = "service" \/ item.id.Value = ""
    THEN [err |-> TRUE, items |-> tbl]
    ELSE [err |-> FALSE, items |-> {i \in tbl : i.id.Value # item.id.Value} \cup {item}]

\* svc.DeleteItem: removes the item under the key; no error when there is none
DeleteItem(tbl, id, fault) ==
    IF fault = "service"
    THEN [err |-> TRUE, items |-> tbl]
    ELSE [err |-> FALSE, items |-> {i \in tbl : i.id.Value # id}]

\* rec[a].(*types.AttributeValueMemberS): fails on a missing or non-string attribute
IsS(rec, a) == a \in DOMAIN rec /\ rec[a].T = "S"

getSourceFromRecord(rec) ==
    IF IsS(rec, "id") /\ IsS(rec, "name") /\ IsS(rec, "url")
    THEN [panic |-> FALSE, source |-> Source(rec.id.Value, rec.name.Value, rec.url.Value)]
    ELSE [panic |-> TRUE, source |-> ZeroSource]

-----------------------------------------------------------------------------
(* The handlers *)

getAllHandler(tbl, fault) ==
    LET svc == getDynamoDbService(fault) IN
    IF svc = "fatal" THEN Result(Exited, tbl, <<>>, FALSE)
    ELSE IF svc = "err" THEN Result(serverError("Failed to retrieve sources"), tbl, <<>>, FALSE)
    ELSE
    LET result == Scan(tbl, fault) IN
    IF result.err
    THEN Result(serverError("Failed to retrieve sources"), tbl, <<"Scan">>, FALSE)
    ELSE IF \E rec \in result.Items : getSourceFromRecord(rec).panic
    THEN Result(Panicked, tbl, <<"Scan">>, FALSE)
    ELSE
    LET sources == MakeSources({getSourceFromRecord(rec).source : rec \in result.Items}) IN
    Result(ok(MarshalSources(sources)), tbl, <<"Scan">>, FALSE)

getHandler(r, tbl) ==
    IF r.id = "" THEN getAllHandler(tbl, r.fault)
    ELSE
    LET svc == getDynamoDbService(r.fault) IN
    IF svc = "fatal" THEN Result(Exited, tbl, <<>>, FALSE)
    ELSE IF svc = "err" THEN Result(serverError("Failed to retrieve source"), tbl, <<>>, FALSE)
    ELSE
    LET result == GetItem(tbl, r.id, r.fault) IN
    IF result.err
    THEN Result(serverError("Failed to retrieve source"), tbl, <<"GetItem">>, FALSE)
    ELSE IF ~result.found
    THEN Result(notFound, tbl, <<"GetItem">>, FALSE)
    ELSE
    LET rec == getSourceFromRecord(result.Item) IN
    IF rec.panic
    THEN Result(Panicked, tbl, <<"GetItem">>, FALSE)
    ELSE Result(ok(MarshalSource(rec.source)), tbl, <<"GetItem">>, FALSE)

postHandler(r, tbl, uuid) ==
    LET source == Unmarshal(r.body)
        svc == getDynamoDbService(r.fault) IN
    IF svc = "fatal" THEN Result(Exited, tbl, <<>>, FALSE)
    ELSE IF svc = "err" THEN Result(serverError("Failed to create source"), tbl, <<>>, FALSE)
    ELSE
    LET put == PutItem(tbl, Item(uuid, source.Name, source.Url), r.fault) IN
    IF put.err
    THEN Result(serverError("Failed to store source"), put.items, <<"PutItem">>, TRUE)
    ELSE Result(created(Verbatim(source.ID)), put.items, <<"PutItem">>, TRUE)

\* a mutant of putHandler: the url attribute is filled from the name
putHandler_urlFromName(r, tbl) ==
    LET source == Unmarshal(r.body)
        svc == getDynamoDbService(r.fault) IN
    IF svc = "fatal" THEN Result(Exited, tbl, <<>>, FALSE)
    ELSE IF svc = "err" THEN Result(serverError("Failed to update source"), tbl, <<>>, FALSE)
    ELSE
    LET put == PutItem(tbl, Item(source.ID, source.Name, source.Name), r.fault) IN
    IF put.err
    THEN Result(serverError("Failed to store source"), put.items, <<"PutItem">>, FALSE)
    ELSE Result(ok(Verbatim(source.ID)), put.items, <<"PutItem">>, FALSE)

putHandler(r, tbl) ==
    LET source == Unmarshal(r.body)
        svc == getDynamoDbService(r.fault) IN
    IF svc = "fatal" THEN Result(Exited, tbl, <<>>, FALSE)
    ELSE IF svc = "err" THEN Result(serverError("Failed to update source"), tbl, <<>>, FALSE)
    ELSE
    LET put == PutItem(tbl, Item(source.ID, source.Name, source.Url), r.fault) IN
    IF put.err
    THEN Result(serverError("Failed to store source"), put.items, <<"PutItem">>, FALSE)
    ELSE Result(ok(Verbatim(source.ID)), put.items, <<"PutItem">>, FALSE)

\* a mutant of deleteHandler: the id is acknowledged but DeleteItem is never issued
deleteHandler_noDelete(r, tbl) ==
    IF r.id = "" THEN getAllHandler(tbl, r.fault)
    ELSE
    LET svc == getDynamoDbService(r.fault) IN
    IF svc = "fatal" THEN Result(Exited, tbl, <<>>, FALSE)
    ELSE Result(ok(Verbatim(r.id)), tbl, <<>>, FALSE)

deleteHandler(r, tbl) ==
    IF r.id = "" THEN getAllHandler(tbl, r.fault)
    ELSE
    LET svc == getDynamoDbService(r.fault) IN
    IF svc = "fatal" THEN Result(Exited, tbl, <<>>, FALSE)
    ELSE IF svc = "err" THEN Result(serverError("Failed to retrieve source"), tbl, <<>>, FALSE)
    ELSE
    LET del == DeleteItem(tbl, r.id, r.fault) IN
    IF del.err
    THEN Result(serverError("Failed to delete source"), del.items, <<"DeleteItem">>, FALSE)
    ELSE Result(ok(Verbatim(r.id)), del.items, <<"DeleteItem">>, FALSE)

\* main.go: dispatch on request.HTTPMethod, no authorization check
handler1(r, tbl, uuid) ==
    CASE r.method = "GET" -> getHandler(r, tbl)
      [] r.method = "POST" -> postHandler(r, tbl, uuid)
      [] r.method = "PUT" -> putHandler(r, tbl)
      [] r.method = "DELETE" -> deleteHandler(r, tbl)
      [] OTHER -> Result(Response(405, Verbatim("unsupported http method")), tbl, <<>>, FALSE)

\* a mutant of handler2: the method is dispatched before the scope is checked
handler2_dispatchFirst(r, tbl, uuid) ==
    IF r.method = "GET" THEN getHandler(r, tbl)
    ELSE IF r.method \notin {"POST", "PUT", "DELETE"} THEN Result(notAllowed, tbl, <<>>, FALSE)
    ELSE IF r.scope # WriteScope THEN Result(unauthorized, tbl, <<>>, FALSE)
    ELSE CASE r.method = "POST" -> postHandler(r, tbl, uuid)
           [] r.method = "PUT" -> putHandler(r, tbl)
           [] OTHER -> deleteHandler(r, tbl)

\* unnamed/part_000: GET first, then the scope claim, then dispatch on the method
handler2(r, tbl, uuid) ==
    IF r.method = "GET" THEN getHandler(r, tbl)
    ELSE IF r.scope # WriteScope THEN Result(unauthorized, tbl, <<>>, FALSE)
    ELSE CASE r.method = "POST" -> postHandler(r, tbl, uuid)
           [] r.method = "PUT" -> putHandler(r, tbl)
           [] r.method = "DELETE" -> deleteHandler(r, tbl)
           [] OTHER -> Result(notAllowed, tbl, <<>>, FALSE)

handler(v, r, tbl, uuid) == IF v = 1 THEN handler1(r, tbl, uuid) ELSE handler2(r, tbl, uuid)

-----------------------------------------------------------------------------
(* The state machine: lambda.Start(handler) serves one request after another *)

Request(method, id, body, scope, fault) ==
    [method |-> method, id |-> id, body |-> body, scope |-> scope, fault |-> fault]

NoDelete == [id |-> "", existed |-> FALSE]

\* the delete by id that invocation r completed from table tbl, if it was one
CompletedDelete(r, res, tbl) ==
    IF r.method = "DELETE" /\ r.id # "" /\ res.resp.outcome = "response" /\ res.resp.StatusCode = 200
    THEN [id |-> r.id, existed |-> \E i \in tbl : i.id.Value = r.id]
    ELSE NoDelete

\* the table, the last response and the persistence calls that made it
Items == out.items

Resp == out.resp

Calls == out.calls

\* one invocation: the deployed variant handles the request from its table
Invoke(r) ==
    /\ req' = r
    /\ before' = Items
    /\ out' = handler(variant, r, Items, Uuid(issued + 1))
    /\ issued' = IF out'.drewUuid THEN issued + 1 ELSE issued
    /\ prevDelete' = CompletedDelete(req, out, before)
    /\ UNCHANGED variant

Get ==
    \E id \in {""} \cup KnownIds(issued), scope \in Scopes, fault \in Faults :
        Invoke(Request("GET", id, MalformedBody, scope, fault))

Post ==
    /\ issued < MaxUuid
    /\ \E body \in Bodies(issued), scope \in Scopes, fault \in Faults :
        Invoke(Request("POST", "", body, scope, fault))

Put ==
    \E body \in Bodies(issued), scope \in Scopes, fault \in Faults :
        Invoke(Request("PUT", "", body, scope, fault))

Delete ==
    \E id \in {""} \cup KnownIds(issued), scope \in Scopes, fault \in Faults :
        Invoke(Request("DELETE", id, MalformedBody, scope, fault))

Other ==
    /\ \E method \in OtherMethods, scope \in Scopes, fault \in Faults :
        Invoke(Request(method, "", MalformedBody, scope, fault))

\* a fresh deployment of one of the variants: an empty table, nothing served yet
Init ==
    /\ variant \in Variants
    /\ out = Result(NotServed, {}, <<>>, FALSE)
    /\ before = {}
    /\ req = Request("NONE", "", MalformedBody, "", "none")
    /\ issued = 0
    /\ prevDelete = NoDelete

Next == Get \/ Post \/ Put \/ Delete \/ Other

Spec == Init /\ [][Next]_vars

-----------------------------------------------------------------------------
(* Properties *)

Served == req.method # "NONE"

Responded == Resp.outcome = "response"

\* what encoding/json leaves in a string field for a member of the body
FieldOf(member) == IF member.t = "string" THEN member.v ELSE ""

\* the UUID that uuid.New() offered to the last invocation
OfferedUuid == IF out.drewUuid THEN Uuid(issued) ELSE Uuid(issued + 1)

\* the messages of the handlers' error bodies
ErrorMessages ==
    {"Failed to retrieve sources", "Failed to retrieve source", "Failed to create source",
     "Failed to update source", "Failed to store source", "Failed to delete source",
     "not found", "Unauthorised", "Unsupported HTTP method", "unsupported http method"}

\* the texts of the shape {"error": "<message>"}
ErrorTexts == {ErrorText(m) : m \in ErrorMessages}

\* does the body parse as JSON?  Of the texts the handlers send as they are, only the
\* error objects do: an id ("c1", a UUID), the empty text and a bare sentence do not.
IsJSON(b) == b.fmt = "json" \/ b.text \in ErrorTexts

IsErrorShape(b) == b.fmt = "text" /\ b.text \in ErrorTexts

\* C1: a create whose put succeeded answers 201 with the id the record was stored
\* under as its body: an id that is not empty and is not the id the request body gave.
C1_CreateReturnsStoredId ==
    (req.method = "POST" /\ Calls = <<"PutItem">> /\ req.fault = "none") =>
        /\ Responded
        /\ Resp.StatusCode = 201
        /\ Resp.Body.fmt = "text"
        /\ Resp.Body.text # ""
        /\ \E i \in Items \ before : i.id.Value = Resp.Body.text
        /\ req.body.id.t = "string" => Resp.Body.text # req.body.id.v

\* C2: a get by the id that a 201 response returned, issued right after that create
\* (body with name n and url u), answers 200 with the record {returned id, n, u}.
C2_GetAfterCreate ==
    [][(/\ req.method = "POST" /\ Responded /\ Resp.StatusCode = 201
        /\ req.body.name.t = "string" /\ req.body.url.t = "string"
        /\ req'.method = "GET" /\ req'.id = Resp.Body.text /\ req'.fault = "none")
       => Resp' = ok(MarshalSource(Source(Resp.Body.text, req.body.name.v, req.body.url.v)))]_vars

\* C3: a request that is not a GET and whose scope claim is absent or is not the write
\* scope is answered 401, issues no persistence call and leaves the table as it was.
C3_UnauthorizedIs401 ==
    (Served /\ req.method # "GET" /\ req.scope # WriteScope) =>
        /\ Responded
        /\ Resp.StatusCode = 401
        /\ Calls = <<>>
        /\ Items = before

C5_VariantsAgree ==
    Served =>
        LET one == handler1(req, before, OfferedUuid)
            two == handler2(req, before, OfferedUuid)
        IN one.resp = two.resp /\ one.items = two.items

\* C6: after a successful PUT whose body carries the id X, the record under X has
\* exactly the name and url of the body, a member the body omits being stored as the
\* empty string, whether or not X was stored before; every other record is as it was.
C6_UpdateIsFullReplace ==
    (req.method = "PUT" /\ Responded /\ Resp.StatusCode = 200 /\ req.body.id.t = "string") =>
        LET X == req.body.id.v IN
        /\ {i \in Items : i.id.Value = X} =
               {Item(X, FieldOf(req.body.name), FieldOf(req.body.url))}
        /\ {i \in Items : i.id.Value # X} = {i \in before : i.id.Value # X}

\* a PUT that omits the url of a stored record whose url was not empty, beside another record
C6_Witness ==
    /\ req.method = "PUT" /\ Responded /\ Resp.StatusCode = 200
    /\ req.body.id.t = "string" /\ req.body.url.t = "absent"
    /\ \E i \in before : i.id.Value = req.body.id.v /\ i.url.Value = "w1"
    /\ \E i \in Items : i.id.Value = req.body.id.v /\ i.url.Value = ""
    /\ \E i \in Items : i.id.Value # req.body.id.v

\* C7: a get by a non-empty id X that comes right after a delete by X answered 200 is
\* answered 404, whether or not X was stored before the delete (the get's own
\* persistence call not failing).
C7_GetAfterDelete ==
    (prevDelete.id # "" /\ req.method = "GET" /\ req.id = prevDelete.id /\ req.fault = "none") =>
        Responded /\ Resp.StatusCode = 404

C7_Witness ==
    /\ prevDelete.id # "" /\ prevDelete.existed
    /\ req.method = "GET" /\ req.id = prevDelete.id /\ req.fault = "none"
    /\ Resp.StatusCode = 404
    /\ Items # {}

\* C8: every request is answered by a response with a status in {200, 201, 401, 404,
\* 405, 500} and a nil error: no panic, no exit of the process.
C8_AlwaysAResponse ==
    Served =>
        /\ Resp.outcome = "response"
        /\ Resp.StatusCode \in {200, 201, 401, 404, 405, 500}
        /\ Resp.err = "nil"

C10_BodiesAreJSON ==
    Responded =>
        /\ IsJSON(Resp.Body)
        /\ Resp.StatusCode \notin {200, 201} => IsErrorShape(Resp.Body)
        /\ (req.method \in {"GET", "DELETE"} /\ req.id = "" /\ Resp.StatusCode = 200)
               => Resp.Body.val.k = "array"

====
